---------------------------- MODULE Spec2Model ----------------------------
(***************************************************************************)
(* State-machine model of the Upstox paper broker of nof1ai:               *)
(* exchange/upstox_rest_client.py (class UpstoxRestClient) and the         *)
(* agent-facing adapter exchange/upstox_marketdata.py (UpstoxMarketData).  *)
(*                                                                         *)
(* Conventions of the model                                                *)
(*  - Python None is the integer -1 (NoneVal) wherever a number or None    *)
(*    may be stored (price, cancelled_at, _auth_expires_at).               *)
(*  - A quantity argument is a record [t, h]: t = "num" for a number whose *)
(*    value is h/2 (so 2.5 is h = 5), t = "none" for a non-numeric value.  *)
(*  - Floats are exact rationals <<n, d>> in lowest terms, d > 0.          *)
(*  - The clock counts seconds.  `now` is its latest reading; every call   *)
(*    that reads it (datetime.now(), time.time()) gets a reading that is   *)
(*    the same or later.                                                   *)
(*  - uuid.uuid4() returns values that are pairwise distinct; the n-th     *)
(*    order identifier drawn by the client is named n (the value drawn     *)
(*    for the paper token is none of them).                                *)
(*  - `last` is what the caller of the latest call observed: the call, the *)
(*    identifier passed or returned, and the kind of value returned or    *)
(*    the error raised.                                                    *)
(***************************************************************************)
EXTENDS Integers, Sequences, FiniteSets, TLC

VARIABLES
    instance,           \* "none", "ready" (__init__ returned) or "failed" (it raised)
    paper_mode,         \* self.paper_mode
    default_lot_sizes,  \* self.default_lot_sizes: key -> lot size
    api_key,            \* self.api_key is truthy
    api_secret,         \* self.api_secret is truthy
    auth_token,         \* self._auth_token: "None", "paper", "live"
    auth_expires_at,    \* self._auth_expires_at (NoneVal when None)
    paper_orders,       \* self._paper_orders: order_id -> order record
    paper_positions,    \* self._paper_positions: symbol -> position record
    now,                \* the latest reading of the wall clock
    uuid_draws,         \* number of order identifiers drawn from uuid.uuid4()
    http_requests,      \* number of requests.post / requests.get calls made
    last,               \* the latest call and its outcome
    md_paper_mode,      \* UpstoxMarketData: self.paper_mode
    paper_capital_inr,  \* UpstoxMarketData: self.paper_capital_inr
    md_paper_positions, \* UpstoxMarketData: self.paper_positions
    current_price,      \* UpstoxMarketData: symbol -> get_current_price(symbol)
    trades,             \* UpstoxMarketData: the trade dicts returned so far
    iteration,          \* BaseNof1Agent: self.iteration
    collected,          \* BaseNof1Agent: calls of collect_all_data so far
    asked,              \* BaseNof1Agent: calls of get_llm_decision so far
    executed            \* BaseNof1Agent: calls of execute_decision by the loop

\* the state of UpstoxMarketData
mdvars == <<md_paper_mode, paper_capital_inr, md_paper_positions,
            current_price, trades>>

\* the state of UpstoxRestClient
restvars == <<instance, paper_mode, default_lot_sizes, api_key, api_secret, auth_token,
              auth_expires_at, paper_orders, paper_positions, uuid_draws,
              http_requests>>

vars == <<instance, paper_mode, default_lot_sizes, api_key, api_secret, auth_token,
          auth_expires_at, paper_orders, paper_positions, now, uuid_draws,
          http_requests, last, md_paper_mode, paper_capital_inr,
          md_paper_positions, current_price, trades, iteration, collected,
          asked, executed>>

\* the state of BaseNof1Agent
agentvars == <<iteration, collected, asked, executed>>

\* the agent right after __init__, before its first iteration
AgentIdle == iteration = 0 /\ collected = 0 /\ asked = 0 /\ executed = 0

-----------------------------------------------------------------------------
(* Bounds of the model *)

MaxOrders == 2
MaxTime == 1
MaxHttp == 2
MaxTrades == 3
MaxQuantity == 12
MaxNotional == 6
MaxIterations == 2

(* Program constants *)

PaperTokenLifetime == 3600
DefaultExpiresIn == 3600
RefreshMargin == 30
StartingCapital == 100000
SyntheticBase == 1000
HashModulus == 500
MarketOpenMinute == 555
MarketCloseMinute == 930

NoneVal == 0 - 1

\* a price of a type float arithmetic rejects (a str, a decimal.Decimal):
\* place_order never looks at the type of price
NotAPrice == 0 - 2

-----------------------------------------------------------------------------
(* Inputs the callers draw from *)

Symbols == {"RELIANCE", "NIFTY"}

Num(h) == [t |-> "num", h |-> h]
NotANumber == [t |-> "none", h |-> 0]

Request(symbol, quantity, side, order_type, price) ==
    [symbol |-> symbol, quantity |-> quantity, side |-> side,
     order_type |-> order_type, price |-> price]

\* argument lists of place_order: the first three pass its checks (2, 1.5
\* and 1 shares), the others carry a bad side or a bad quantity (0.5, 0,
\* -0.5, -1, not a number)
OrderRequests ==
    {Request("RELIANCE", Num(4), "buy", "stop", 10),
     Request("NIFTY", Num(3), "BUY", "market", NoneVal),
     Request("RELIANCE", Num(2), "SELL", "market", 20),
     Request("RELIANCE", Num(2), "hold", "market", 10),
     Request("RELIANCE", Num(1), "buy", "limit", 10),
     Request("NIFTY", Num(0), "sell", "limit", 10),
     Request("NIFTY", Num(0 - 1), "buy", "market", 10),
     Request("NIFTY", Num(0 - 2), "buy", "market", 10),
     Request("RELIANCE", NotANumber, "buy", "market", 10)}

\* argument lists of market_buy and of market_sell
MarketBuyRequests == {Request("NIFTY", Num(2), "buy", "market", NoneVal)}
MarketSellRequests == {Request("RELIANCE", Num(2), "sell", "market", 20)}

OrderIdInputs == 0 .. MaxOrders
ExpiresInInputs == {NoneVal, 30, 31}

-----------------------------------------------------------------------------
(* Python primitives *)

Abs(x) == IF x < 0 THEN 0 - x ELSE x

\* str.lower() on the side strings callers pass
Lower(s) ==
    CASE s = "BUY" -> "buy"
      [] s = "SELL" -> "sell"
      [] s = "Buy" -> "buy"
      [] s = "Sell" -> "sell"
      [] s = "HOLD" -> "hold"
      [] OTHER -> s

\* int(x) for a number x = h/2: truncation toward zero
PyInt(h) == IF h >= 0 THEN h \div 2 ELSE 0 - ((0 - h) \div 2)

RECURSIVE Gcd(_, _)
Gcd(a, b) == IF b = 0 THEN a ELSE Gcd(b, a % b)

\* the rational n/d in lowest terms, d > 0
Rat(n, d) ==
    LET g == Gcd(Abs(n), Abs(d))
        s == IF d < 0 THEN 0 - 1 ELSE 1
    IN  IF n = 0 THEN <<0, 1>> ELSE <<s * (n \div g), s * (d \div g)>>

RatInt(k) == <<k, 1>>
RatAdd(a, b) ==
    LET g == Gcd(a[2], b[2])
    IN  Rat(a[1] * (b[2] \div g) + b[1] * (a[2] \div g), (a[2] \div g) * b[2])
RatMulInt(a, k) == Rat(a[1] * k, a[2])
RatDivInt(a, k) == Rat(a[1], a[2] * k)
RatIsZero(a) == a[1] = 0
RatSub(a, b) == RatAdd(a, RatMulInt(b, 0 - 1))

\* Python max(a, b) on integers
Max(a, b) == IF a >= b THEN a ELSE b

\* Python round(x, 2): the nearest multiple of 1/100, ties to even
Round2(a) ==
    LET whole == IF a[1] >= 0 THEN a[1] \div a[2]
                 ELSE 0 - (((0 - a[1]) + a[2] - 1) \div a[2])
        scaled == 100 * (a[1] - whole * a[2])
        low == scaled \div a[2]
        rest == scaled - low * a[2]
        up == IF 2 * rest < a[2] THEN 0
              ELSE IF 2 * rest > a[2] THEN 1
              ELSE low % 2
    IN  Rat(100 * whole + low + up, 100)

\* Python `x or y` for an optional price x and a float y
PriceOr(price, y) == IF price = NoneVal \/ price = 0 THEN y ELSE RatInt(price)


\* dict[k] = v and dict.pop(k, None)
Put(f, k, v) == [x \in (DOMAIN f) \cup {k} |-> IF x = k THEN v ELSE f[x]]
Pop(f, k) == [x \in (DOMAIN f) \ {k} |-> f[x]]
EmptyDict == [x \in {} |-> 0]

-----------------------------------------------------------------------------
(* The call record *)

Call(op, id, out) == [op |-> op, id |-> id, out |-> out]

Errors == {"ValueError: side", "ValueError: quantity", "TypeError",
           "RuntimeError", "HTTPError"}

-----------------------------------------------------------------------------
(* Construction and authentication *)

PaperModeArgs == {"True", "False", "None"}
EnvPaperModes == {"1", "0", "true", "off"}

\* HTTP responses of the token endpoint: failure, or a JSON body that may
\* lack access_token and may lack expires_in
TokenResponses ==
    {[ok |-> FALSE, token |-> FALSE, expires_in |-> NoneVal]}
    \cup {[ok |-> TRUE, token |-> tk, expires_in |-> e] :
             tk \in BOOLEAN, e \in ExpiresInInputs}
\* HTTP responses of the order endpoints: 2xx or not
HttpOk == BOOLEAN

\* __init__: "Determine paper mode (env overrides)"
DeterminePaperMode(arg, env) ==
    IF arg = "None"
    THEN CASE env \in {"1", "2"} -> TRUE         \* bool(int(str(pm)))
           [] env = "0" -> FALSE
           [] OTHER -> env \in {"true", "yes"}   \* int() raised
    ELSE arg = "True"

\* _authenticate_live without its credentials check
authenticate_live_nocheck(pm, key, secret, tok, exp, t, r) ==
    IF pm
    THEN [raised |-> "no", tok |-> tok, exp |-> exp, http |-> 0]
    ELSE IF ~r.ok
    THEN [raised |-> "HTTPError", tok |-> tok, exp |-> exp, http |-> 1]
    ELSE [raised |-> "no",
          tok |-> IF r.token THEN "live" ELSE "None",
          exp |-> t + (IF r.expires_in = NoneVal THEN DefaultExpiresIn
                       ELSE r.expires_in),
          http |-> 1]

\* _authenticate_live: the fields it leaves and what it raised
authenticate_live(pm, key, secret, tok, exp, t, r) ==
    IF pm
    THEN [raised |-> "no", tok |-> tok, exp |-> exp, http |-> 0]
    ELSE IF ~(key /\ secret)
    THEN [raised |-> "RuntimeError", tok |-> tok, exp |-> exp, http |-> 0]
    ELSE IF ~r.ok
    THEN [raised |-> "HTTPError", tok |-> tok, exp |-> exp, http |-> 1]
    ELSE [raised |-> "no",
          tok |-> IF r.token THEN "live" ELSE "None",
          exp |-> t + (IF r.expires_in = NoneVal THEN DefaultExpiresIn
                       ELSE r.expires_in),
          http |-> 1]

\* a test that looks at the token only, never at its expiry
NeedsAuth_tokenonly(pm, tok, exp, t) == ~pm /\ tok = "None"

\* the test of _ensure_auth
NeedsAuth(pm, tok, exp, t) ==
    /\ ~pm
    /\ \/ tok = "None"
       \/ (exp # NoneVal /\ exp # 0 /\ t > exp - RefreshMargin)

\* _ensure_auth
ensure_auth(pm, key, secret, tok, exp, t, r) ==
    IF pm
    THEN [raised |-> "no", tok |-> tok, exp |-> exp, http |-> 0]
    ELSE IF NeedsAuth(pm, tok, exp, t)
    THEN authenticate_live(pm, key, secret, tok, exp, t, r)
    ELSE [raised |-> "no", tok |-> tok, exp |-> exp, http |-> 0]

\* the default_lot_sizes argument of __init__: not given (None), or a dict:
\* an empty one, the one of the tests, one keyed in lower case
LotSizesArg(given, table) == [given |-> given, table |-> table]
NoLotSizes == LotSizesArg(FALSE, EmptyDict)
LotSizesArgs ==
    {NoLotSizes,
     LotSizesArg(TRUE, EmptyDict),
     LotSizesArg(TRUE, [k \in {"RELIANCE", "NIFTY"} |->
                           IF k = "NIFTY" THEN 50 ELSE 1]),
     LotSizesArg(TRUE, [k \in {"nifty"} |-> 50])}

\* the fallback table of __init__
DefaultLotSizes ==
    [k \in {"NIFTY", "BANKNIFTY"} |-> IF k = "NIFTY" THEN 50 ELSE 15]

\* `default_lot_sizes or {...}`: None and the empty dict give the fallback
LotSizesOr(arg) ==
    IF ~arg.given \/ arg.table = EmptyDict THEN DefaultLotSizes ELSE arg.table

\* what a call that reads the clock may get
ClockReadings == now .. MaxTime

\* UpstoxRestClient.__init__
Construct(pm_arg, pm_env, key, secret, r) ==
    /\ instance = "none"
    /\ \E t \in ClockReadings :
       LET pm == DeterminePaperMode(pm_arg, pm_env)
           a == authenticate_live(pm, key, secret, "None", NoneVal, t, r)
       IN  /\ now' = t
           /\ paper_mode' = pm
           /\ default_lot_sizes' = LotSizesOr(NoLotSizes)
           /\ api_key' = key
           /\ api_secret' = secret
           /\ paper_orders' = EmptyDict
           /\ paper_positions' = EmptyDict
           /\ IF ~pm
              THEN /\ instance' = IF a.raised = "no" THEN "ready" ELSE "failed"
                   /\ auth_token' = a.tok
                   /\ auth_expires_at' = a.exp
                   /\ http_requests' = http_requests + a.http
                   /\ uuid_draws' = uuid_draws
                   /\ last' = Call("__init__", 0, a.raised)
              ELSE /\ instance' = "ready"
                   /\ auth_token' = "paper"
                   /\ auth_expires_at' = t + PaperTokenLifetime
                   /\ http_requests' = http_requests
                   /\ uuid_draws' = uuid_draws
                   /\ last' = Call("__init__", 0, "no")


-----------------------------------------------------------------------------
(* The paper ledgers *)

\* an identifier taken from the clock instead of uuid4
NewOrderId_clock(draws, t) == t + 1

\* order_id = str(uuid.uuid4()): the next value drawn
NewOrderId(draws, t) == draws + 1

\* an order recorded as placed but not filled
NewOrder_unfilled(order_id, symbol, quantity, side, order_type, price, t) ==
    [order_id |-> order_id, symbol |-> symbol, quantity |-> quantity,
     side |-> side, order_type |-> order_type, price |-> price,
     status |-> "placed", filled_quantity |-> 0, timestamp |-> t,
     product |-> "MIS", validity |-> "DAY", tag |-> NoneVal,
     cancelled_at |-> NoneVal]

\* the order dict place_order builds (product, validity and tag are passed
\* through unread; callers here leave them at their defaults)
NewOrder(order_id, symbol, quantity, side, order_type, price, t) ==
    [order_id |-> order_id, symbol |-> symbol, quantity |-> quantity,
     side |-> side, order_type |-> order_type, price |-> price,
     status |-> "placed", filled_quantity |-> quantity, timestamp |-> t,
     product |-> "MIS", validity |-> "DAY", tag |-> NoneVal,
     cancelled_at |-> NoneVal]

\* an aggregation that keeps the row of a position sold down to zero
ApplyFill_keepzero(positions, symbol, side, quantity, price) ==
    LET known == symbol \in DOMAIN positions
        existing_qty == IF known THEN positions[symbol].quantity ELSE 0
        existing_avg == IF known THEN positions[symbol].avg_price ELSE RatInt(0)
    IN  IF side = "buy"
        THEN LET total_cost == RatAdd(RatMulInt(existing_avg, existing_qty),
                                      RatMulInt(PriceOr(price, RatInt(0)), quantity))
                 new_qty == existing_qty + quantity
                 new_avg == IF new_qty > 0 THEN RatDivInt(total_cost, new_qty)
                            ELSE RatInt(0)
             IN  Put(positions, symbol,
                     [quantity |-> new_qty, avg_price |-> new_avg,
                      current_price |-> PriceOr(price, new_avg)])
        ELSE LET new_qty == existing_qty - quantity
             IN  IF new_qty < 0
                 THEN Pop(positions, symbol)
                 ELSE Put(positions, symbol,
                          [quantity |-> new_qty, avg_price |-> existing_avg,
                           current_price |-> PriceOr(price, existing_avg)])

\* an aggregation that books a sale beyond the held quantity as a short
ApplyFill_short(positions, symbol, side, quantity, price) ==
    LET known == symbol \in DOMAIN positions
        existing_qty == IF known THEN positions[symbol].quantity ELSE 0
        existing_avg == IF known THEN positions[symbol].avg_price ELSE RatInt(0)
        new_qty == IF side = "buy" THEN existing_qty + quantity
                   ELSE existing_qty - quantity
    IN  IF new_qty = 0 THEN Pop(positions, symbol)
        ELSE Put(positions, symbol,
                 [quantity |-> new_qty, avg_price |-> existing_avg,
                  current_price |-> PriceOr(price, existing_avg)])

\* "Update paper positions (simplistic aggregation)"
ApplyFill(positions, symbol, side, quantity, price) ==
    LET known == symbol \in DOMAIN positions
        existing_qty == IF known THEN positions[symbol].quantity ELSE 0
        existing_avg == IF known THEN positions[symbol].avg_price ELSE RatInt(0)
    IN  IF side = "buy"
        THEN LET total_cost == RatAdd(RatMulInt(existing_avg, existing_qty),
                                      RatMulInt(PriceOr(price, RatInt(0)), quantity))
                 new_qty == existing_qty + quantity
                 new_avg == IF new_qty > 0 THEN RatDivInt(total_cost, new_qty)
                            ELSE RatInt(0)
             IN  Put(positions, symbol,
                     [quantity |-> new_qty, avg_price |-> new_avg,
                      current_price |-> PriceOr(price, new_avg)])
        ELSE LET new_qty == existing_qty - quantity
             IN  IF new_qty <= 0
                 THEN Pop(positions, symbol)
                 ELSE Put(positions, symbol,
                          [quantity |-> new_qty, avg_price |-> existing_avg,
                           current_price |-> PriceOr(price, existing_avg)])

\* the argument checks of place_order: "ok" or the error raised
ValidateOrder(quantity, side, order_type) ==
    IF Lower(side) \notin {"buy", "sell"} THEN "ValueError: side"
    ELSE IF quantity.t # "num" THEN "TypeError"
    ELSE IF PyInt(quantity.h) <= 0 THEN "ValueError: quantity"
    ELSE "ok"

\* `existing_avg * existing_qty + (price or 0.0) * quantity` adds a float to
\* whatever price * quantity is: a TypeError for a str or a Decimal price.
\* The sell branch does no arithmetic on price.
FillRaises(side, price) == side = "buy" /\ price = NotAPrice

\* the paper branch of place_order on a valid order: the ledgers it leaves.
\* The order is saved before the position update starts, so an update that
\* raises leaves the order behind.
PaperPlace(orders, positions, draws, t, symbol, quantity, side, order_type, price) ==
    LET order_id == NewOrderId(draws, t)
        order == NewOrder(order_id, symbol, quantity, side, order_type, price, t)
        raised == FillRaises(side, price)
    IN  [orders |-> Put(orders, order_id, order),
         positions |-> IF raised THEN positions
                       ELSE ApplyFill(positions, symbol, side, quantity, price),
         draws |-> draws + 1,
         order_id |-> order_id,
         raised |-> raised]

\* a cancellation that also takes the fill back out of the order
CancelledOrder_zeroqty(order, t) ==
    [order EXCEPT !.status = "cancelled", !.cancelled_at = t, !.quantity = 0]

\* a cancellation that toggles the status
CancelledOrder_toggle(order, t) ==
    [order EXCEPT !.status = IF @ = "placed" THEN "cancelled" ELSE "placed",
                  !.cancelled_at = t]

\* the paper branch of cancel_order on a known order
CancelledOrder(order, t) ==
    [order EXCEPT !.status = "cancelled", !.cancelled_at = t]

\* the paper branch of get_order_status: the dict it returns
OrderStatus(orders, order_id) ==
    IF order_id \in DOMAIN orders THEN orders[order_id]
    ELSE [order_id |-> order_id, status |-> "unknown"]

\* the paper branch of get_positions: the rows it returns
PositionRows(positions) ==
    {[symbol |-> sym, quantity |-> positions[sym].quantity,
      avg_price |-> positions[sym].avg_price,
      current_price |-> positions[sym].current_price] : sym \in DOMAIN positions}


-----------------------------------------------------------------------------
(* The operations of UpstoxRestClient *)

\* an operation that never takes its paper branch
UsePaperPath_never == FALSE

\* `if self.paper_mode:` at the head of every operation
UsePaperPath == paper_mode

\* the live tail of an operation: _ensure_auth, then one HTTP request; the
\* token endpoint (if asked) answers r and the operation's endpoint answers ok
LiveRequest(op, id) ==
    /\ http_requests < MaxHttp
    /\ \E r \in TokenResponses, ok \in HttpOk, t \in ClockReadings :
       LET a == ensure_auth(paper_mode, api_key, api_secret, auth_token,
                            auth_expires_at, t, r)
       IN  /\ now' = t
           /\ auth_token' = a.tok
           /\ auth_expires_at' = a.exp
           /\ IF a.raised # "no"
              THEN /\ http_requests' = http_requests + a.http
                   /\ last' = Call(op, id, a.raised)
              ELSE /\ http_requests' = http_requests + a.http + 1
                   /\ last' = Call(op, id, IF ok THEN "json" ELSE "HTTPError")
    /\ UNCHANGED <<instance, paper_mode, default_lot_sizes, api_key, api_secret, paper_orders,
                   paper_positions, uuid_draws>>

\* place_order, called as `op` (place_order itself, market_buy or market_sell)
PlaceOrderAs(op, symbol, quantity, side, order_type, price) ==
    /\ instance = "ready"
    /\ LET v == ValidateOrder(quantity, side, order_type)
       IN  IF v # "ok"
           THEN /\ last' = Call(op, 0, v)
                /\ UNCHANGED <<instance, paper_mode, default_lot_sizes, api_key, api_secret,
                               auth_token, auth_expires_at, paper_orders,
                               paper_positions, now, uuid_draws, http_requests>>
           ELSE IF UsePaperPath
           THEN /\ Cardinality(DOMAIN paper_orders) < MaxOrders
                /\ \E t \in ClockReadings :
                   LET p == PaperPlace(paper_orders, paper_positions, uuid_draws,
                                       t, symbol, PyInt(quantity.h),
                                       Lower(side), order_type, price)
                   IN  /\ now' = t
                       /\ paper_orders' = p.orders
                       /\ paper_positions' = p.positions
                       /\ uuid_draws' = p.draws
                       /\ last' = IF p.raised THEN Call(op, 0, "TypeError")
                                  ELSE Call(op, p.order_id, "order")
                /\ UNCHANGED <<instance, paper_mode, default_lot_sizes, api_key, api_secret,
                               auth_token, auth_expires_at, http_requests>>
           ELSE LiveRequest(op, 0)

place_order(symbol, quantity, side, order_type, price) ==
    PlaceOrderAs("place_order", symbol, quantity, side, order_type, price)

market_buy(symbol, quantity, price) ==
    PlaceOrderAs("market_buy", symbol, quantity, "buy", "market", price)

market_sell(symbol, quantity, price) ==
    PlaceOrderAs("market_sell", symbol, quantity, "sell", "market", price)

\* a get_order_status that files the sentinel it returns for an unknown id
get_order_status_insert(order_id) ==
    /\ instance = "ready"
    /\ IF UsePaperPath
       THEN /\ last' = Call("get_order_status", order_id,
                            IF OrderStatus(paper_orders, order_id).status = "unknown"
                            THEN "unknown" ELSE "order")
            /\ paper_orders' =
                  Put(paper_orders, order_id, OrderStatus(paper_orders, order_id))
            /\ UNCHANGED <<instance, paper_mode, default_lot_sizes, api_key, api_secret,
                           auth_token, auth_expires_at,
                           paper_positions, now, uuid_draws, http_requests>>
       ELSE LiveRequest("get_order_status", order_id)

get_order_status(order_id) ==
    /\ instance = "ready"
    /\ IF UsePaperPath
       THEN /\ last' = Call("get_order_status", order_id,
                            IF OrderStatus(paper_orders, order_id).status = "unknown"
                            THEN "unknown" ELSE "order")
            /\ UNCHANGED <<instance, paper_mode, default_lot_sizes, api_key, api_secret,
                           auth_token, auth_expires_at, paper_orders,
                           paper_positions, now, uuid_draws, http_requests>>
       ELSE LiveRequest("get_order_status", order_id)

\* a cancel_order that files a record for an identifier it does not know
cancel_order_setdefault(order_id) ==
    /\ instance = "ready"
    /\ IF UsePaperPath
       THEN /\ \E t \in ClockReadings :
               /\ now' = t
               /\ last' = Call("cancel_order", order_id, "order")
               /\ paper_orders' =
                     Put(paper_orders, order_id,
                         IF order_id \in DOMAIN paper_orders
                         THEN CancelledOrder(paper_orders[order_id], t)
                         ELSE [order_id |-> order_id, status |-> "cancelled",
                               cancelled_at |-> t])
            /\ UNCHANGED <<instance, paper_mode, default_lot_sizes, api_key, api_secret,
                           auth_token, auth_expires_at, paper_positions,
                           uuid_draws, http_requests>>
       ELSE LiveRequest("cancel_order", order_id)

\* a cancel_order that takes the order's symbol out of the position ledger
cancel_order_reversing(order_id) ==
    /\ instance = "ready"
    /\ IF UsePaperPath
       THEN /\ IF order_id \notin DOMAIN paper_orders
               THEN /\ last' = Call("cancel_order", order_id, "not_found")
                    /\ UNCHANGED <<paper_orders, paper_positions, now>>
               ELSE \E t \in ClockReadings :
                    /\ now' = t
                    /\ last' = Call("cancel_order", order_id, "order")
                    /\ paper_orders' =
                          Put(paper_orders, order_id,
                              CancelledOrder(paper_orders[order_id], t))
                    /\ paper_positions' =
                          Pop(paper_positions, paper_orders[order_id].symbol)
            /\ UNCHANGED <<instance, paper_mode, default_lot_sizes, api_key, api_secret,
                           auth_token, auth_expires_at,
                           uuid_draws, http_requests>>
       ELSE LiveRequest("cancel_order", order_id)

cancel_order(order_id) ==
    /\ instance = "ready"
    /\ IF UsePaperPath
       THEN /\ IF order_id \notin DOMAIN paper_orders
               THEN /\ last' = Call("cancel_order", order_id, "not_found")
                    /\ UNCHANGED <<paper_orders, now>>
               ELSE \E t \in ClockReadings :
                    /\ now' = t
                    /\ last' = Call("cancel_order", order_id, "order")
                    /\ paper_orders' =
                          Put(paper_orders, order_id,
                              CancelledOrder(paper_orders[order_id], t))
            /\ UNCHANGED <<instance, paper_mode, default_lot_sizes, api_key, api_secret,
                           auth_token, auth_expires_at, paper_positions,
                           uuid_draws, http_requests>>
       ELSE LiveRequest("cancel_order", order_id)

get_positions ==
    /\ instance = "ready"
    /\ IF UsePaperPath
       THEN /\ last' = Call("get_positions", 0, "list")
            /\ UNCHANGED <<instance, paper_mode, default_lot_sizes, api_key, api_secret,
                           auth_token, auth_expires_at, paper_orders,
                           paper_positions, now, uuid_draws, http_requests>>
       ELSE LiveRequest("get_positions", 0)

\* a close_position that always buys
close_position_buy(symbol) ==
    /\ instance = "ready"
    /\ IF UsePaperPath
       THEN /\ IF symbol \notin DOMAIN paper_positions
                  \/ paper_positions[symbol].quantity = 0
               THEN /\ last' = Call("close_position", 0, "True")
                    /\ UNCHANGED <<paper_orders, paper_positions, uuid_draws,
                                   now>>
               ELSE LET qty == paper_positions[symbol].quantity
                        side == "buy"
                        quantity == [t |-> "num", h |-> 2 * Abs(qty)]
                    IN  /\ ValidateOrder(quantity, side, "market") = "ok"
                        /\ Cardinality(DOMAIN paper_orders) < MaxOrders
                        /\ \E t \in ClockReadings :
                           LET p == PaperPlace(paper_orders, paper_positions,
                                               uuid_draws, t, symbol,
                                               PyInt(quantity.h), Lower(side),
                                               "market", NoneVal)
                           IN  /\ now' = t
                               /\ paper_orders' = p.orders
                               /\ paper_positions' = Pop(p.positions, symbol)
                               /\ uuid_draws' = p.draws
                               /\ last' = Call("close_position", p.order_id,
                                               "True")
            /\ UNCHANGED <<instance, paper_mode, default_lot_sizes, api_key, api_secret,
                           auth_token, auth_expires_at, http_requests>>
       ELSE LiveRequest("close_position", 0)

\* a close_position that trades one share and leaves the row to the fill
close_position_oneshare(symbol) ==
    /\ instance = "ready"
    /\ IF UsePaperPath
       THEN /\ IF symbol \notin DOMAIN paper_positions
                  \/ paper_positions[symbol].quantity = 0
               THEN /\ last' = Call("close_position", 0, "True")
                    /\ UNCHANGED <<paper_orders, paper_positions, uuid_draws,
                                   now>>
               ELSE LET qty == paper_positions[symbol].quantity
                        side == IF qty > 0 THEN "sell" ELSE "buy"
                        quantity == [t |-> "num", h |-> 2]
                    IN  /\ ValidateOrder(quantity, side, "market") = "ok"
                        /\ Cardinality(DOMAIN paper_orders) < MaxOrders
                        /\ \E t \in ClockReadings :
                           LET p == PaperPlace(paper_orders, paper_positions,
                                               uuid_draws, t, symbol,
                                               PyInt(quantity.h), Lower(side),
                                               "market", NoneVal)
                           IN  /\ now' = t
                               /\ paper_orders' = p.orders
                               /\ paper_positions' = p.positions
                               /\ uuid_draws' = p.draws
                               /\ last' = Call("close_position", p.order_id,
                                               "True")
            /\ UNCHANGED <<instance, paper_mode, default_lot_sizes, api_key, api_secret,
                           auth_token, auth_expires_at, http_requests>>
       ELSE LiveRequest("close_position", 0)

close_position(symbol) ==
    /\ instance = "ready"
    /\ IF UsePaperPath
       THEN /\ IF symbol \notin DOMAIN paper_positions
                  \/ paper_positions[symbol].quantity = 0
               THEN /\ last' = Call("close_position", 0, "True")
                    /\ UNCHANGED <<paper_orders, paper_positions, uuid_draws,
                                   now>>
               ELSE LET qty == paper_positions[symbol].quantity
                        side == IF qty > 0 THEN "sell" ELSE "buy"
                        quantity == [t |-> "num", h |-> 2 * Abs(qty)]
                    IN  /\ ValidateOrder(quantity, side, "market") = "ok"
                        /\ Cardinality(DOMAIN paper_orders) < MaxOrders
                        /\ \E t \in ClockReadings :
                           LET p == PaperPlace(paper_orders, paper_positions,
                                               uuid_draws, t, symbol,
                                               PyInt(quantity.h), Lower(side),
                                               "market", NoneVal)
                           IN  /\ now' = t
                               /\ paper_orders' = p.orders
                               /\ paper_positions' = Pop(p.positions, symbol)
                               /\ uuid_draws' = p.draws
                               /\ last' = Call("close_position", p.order_id,
                                               "True")
            /\ UNCHANGED <<instance, paper_mode, default_lot_sizes, api_key, api_secret,
                           auth_token, auth_expires_at, http_requests>>
       ELSE LiveRequest("close_position", 0)

-----------------------------------------------------------------------------
(* The agent-facing adapter UpstoxMarketData *)

\* hash(symbol) % 500, fixed for the life of the process
HashResidues == {0, HashModulus - 1}

\* the last close of the synthetic series of get_data(symbol, '1m', 5):
\* base + sin(4 / 5.0) * 5 + 4 * 0.01, the offset taken to three decimals
SyntheticPrice(residue) ==
    Rat((SyntheticBase + residue) * 1000 + 3627, 1000)

Trade(symbol, quantity, price) ==
    [symbol |-> symbol, quantity |-> quantity, price |-> price]

\* argument lists of UpstoxMarketData.market_buy and market_sell
BuyRequests ==
    {Trade("NIFTY", 2, 10), Trade("NIFTY", 1, 16),
     Trade("RELIANCE", 1, NoneVal)}
SellRequests ==
    {Trade("NIFTY", 2, 10), Trade("NIFTY", 3, 20),
     Trade("RELIANCE", 1, NoneVal)}

\* the fallback of get_current_price when the series cannot be had:
\* 1000.0 + (hash(symbol) % 500), the synthetic close without its offset
FallbackPrice(prices, symbol) == RatSub(prices[symbol], Rat(3627, 1000))

\* get_current_price(symbol); data_ok tells whether get_data gave a series
GetCurrentPrice(prices, symbol, data_ok) ==
    IF data_ok THEN prices[symbol] ELSE FallbackPrice(prices, symbol)

\* ltp = price or self.get_current_price(symbol)
Ltp(price, prices, symbol) == PriceOr(price, prices[symbol])

\* "Update paper positions (very simple mark-to-market aggregation)"
PositionAfter(positions, symbol, side, quantity, ltp) ==
    LET known == symbol \in DOMAIN positions
        old_qty == IF known THEN positions[symbol].quantity ELSE 0
        old_avg == IF known THEN positions[symbol].avg_price ELSE RatInt(0)
    IN  IF side = "BUY"
        THEN LET total_qty == old_qty + quantity
                 avg == IF total_qty = 0 THEN RatInt(0)
                        ELSE RatDivInt(RatAdd(RatMulInt(old_avg, old_qty),
                                              RatMulInt(ltp, quantity)),
                                       Max(1, total_qty))
             IN  Put(positions, symbol,
                     [quantity |-> total_qty, avg_price |-> avg])
        ELSE Put(positions, symbol,
                 [quantity |-> old_qty - quantity, avg_price |-> old_avg])

\* a capital update that books only the BUY fills
CapitalAfter_buyonly(capital, side, notional) ==
    IF side = "BUY" THEN RatSub(capital, notional) ELSE capital

\* "Update capital (very basic)"
CapitalAfter(capital, side, notional) ==
    IF side = "BUY" THEN RatSub(capital, notional)
    ELSE RatAdd(capital, notional)

\* the rows of get_all_positions in paper mode
AllPositions(positions, prices) ==
    [sym \in DOMAIN positions |->
        [symbol |-> sym,
         quantity |-> positions[sym].quantity,
         avg_price |-> positions[sym].avg_price,
         current_price |-> prices[sym],
         unrealized_pnl |->
            RatMulInt(RatSub(prices[sym], positions[sym].avg_price),
                      positions[sym].quantity)]]

\* sum(get_current_price(s) * quantity) over the positions in syms
RECURSIVE MarkSum(_, _, _)
MarkSum(positions, prices, syms) ==
    IF syms = {} THEN RatInt(0)
    ELSE LET sym == CHOOSE x \in syms : TRUE
         IN  RatAdd(RatMulInt(prices[sym], positions[sym].quantity),
                    MarkSum(positions, prices, syms \ {sym}))

\* a balance that leaves the positions out of the account value
AccountBalance_cashonly(paper, capital, positions, prices) ==
    IF paper
    THEN [account_value_inr |-> Round2(capital),
          available_cash_inr |-> Round2(capital)]
    ELSE [account_value_inr |-> RatInt(0), available_cash_inr |-> RatInt(0)]

\* the dict get_account_balance returns
AccountBalance(paper, capital, positions, prices) ==
    IF paper
    THEN [account_value_inr |->
             Round2(RatAdd(capital,
                           MarkSum(positions, prices, DOMAIN positions))),
          available_cash_inr |-> Round2(capital)]
    ELSE [account_value_inr |-> RatInt(0), available_cash_inr |-> RatInt(0)]

\* _place_paper_trade, reached through market_buy (side 'BUY') or
\* market_sell (side 'SELL'); in live mode both return a failed result
PaperTradeStep(op, symbol, side, quantity, price, data_ok, out, out_live) ==
    /\ IF md_paper_mode
       THEN /\ Len(trades) < MaxTrades
            /\ \E t \in ClockReadings :
               LET quotes == [sym \in DOMAIN current_price |->
                                GetCurrentPrice(current_price, sym, data_ok)]
                   ltp == Ltp(price, quotes, symbol)
                   notional == RatMulInt(ltp, quantity)
               IN  /\ now' = t
                   /\ md_paper_positions' =
                         PositionAfter(md_paper_positions, symbol, side,
                                       quantity, ltp)
                   /\ paper_capital_inr' =
                         CapitalAfter(paper_capital_inr, side, notional)
                   /\ trades' = Append(trades,
                         [status |-> "success", trade_id |-> t,
                          symbol |-> symbol, side |-> side,
                          quantity |-> quantity, price |-> ltp])
                   /\ last' = Call(op, t, out)
       ELSE /\ last' = Call(op, 0, out_live)
            /\ UNCHANGED <<now, md_paper_positions, paper_capital_inr, trades>>
    /\ UNCHANGED <<md_paper_mode, current_price>>
    /\ UNCHANGED restvars

place_paper_trade(op, symbol, side, quantity, price) ==
    \E data_ok \in BOOLEAN :
       PaperTradeStep(op, symbol, side, quantity, price, data_ok,
                      "success", "failed")

md_market_buy(symbol, quantity, price) ==
    /\ place_paper_trade("md.market_buy", symbol, "BUY", quantity, price)
    /\ UNCHANGED agentvars

md_market_sell(symbol, quantity, price) ==
    /\ place_paper_trade("md.market_sell", symbol, "SELL", quantity, price)
    /\ UNCHANGED agentvars

get_all_positions ==
    /\ last' = Call("get_all_positions", 0, "dict")
    /\ UNCHANGED <<now, mdvars, restvars, agentvars>>

get_account_balance ==
    /\ last' = Call("get_account_balance", 0, "dict")
    /\ UNCHANGED <<now, mdvars, restvars, agentvars>>

\* UpstoxMarketData() right after __init__: starting capital, no positions
MDConstructed(paper, prices) ==
    /\ md_paper_mode = paper
    /\ paper_capital_inr = RatInt(StartingCapital)
    /\ md_paper_positions = EmptyDict
    /\ current_price = prices
    /\ trades = << >>

\* the adapter as the broker model carries it: constructed and never called
MDIdle == MDConstructed(TRUE, [sym \in Symbols |-> SyntheticPrice(0)])

\* the broker as the adapter model carries it: not constructed
RestIdle ==
    /\ instance = "none"
    /\ paper_mode = TRUE
    /\ default_lot_sizes = EmptyDict
    /\ api_key = FALSE
    /\ api_secret = FALSE
    /\ auth_token = "None"
    /\ auth_expires_at = NoneVal
    /\ paper_orders = EmptyDict
    /\ paper_positions = EmptyDict
    /\ uuid_draws = 0
    /\ http_requests = 0

MDInit ==
    /\ RestIdle
    /\ AgentIdle
    /\ now = 0
    /\ last = Call("none", 0, "no")
    /\ \E paper \in BOOLEAN, residues \in [Symbols -> HashResidues] :
          MDConstructed(paper, [sym \in Symbols |-> SyntheticPrice(residues[sym])])

MDNext ==
    \/ \E q \in BuyRequests : md_market_buy(q.symbol, q.quantity, q.price)
    \/ \E q \in SellRequests : md_market_sell(q.symbol, q.quantity, q.price)
    \/ get_all_positions
    \/ get_account_balance

SpecMD == MDInit /\ [][MDNext]_vars

-----------------------------------------------------------------------------
(* The specification *)

Init ==
    /\ instance = "none"
    /\ paper_mode = TRUE
    /\ default_lot_sizes = EmptyDict
    /\ api_key = FALSE
    /\ api_secret = FALSE
    /\ auth_token = "None"
    /\ auth_expires_at = NoneVal
    /\ paper_orders = EmptyDict
    /\ paper_positions = EmptyDict
    /\ now = 0
    /\ uuid_draws = 0
    /\ http_requests = 0
    /\ last = Call("none", 0, "no")
    /\ MDIdle
    /\ AgentIdle

Next ==
    \/ \E pm_arg \in PaperModeArgs, pm_env \in EnvPaperModes,
          key \in BOOLEAN, secret \in BOOLEAN,
          r \in TokenResponses :
          Construct(pm_arg, pm_env, key, secret, r) /\ UNCHANGED <<mdvars, agentvars>>
    \/ \E q \in OrderRequests :
          /\ place_order(q.symbol, q.quantity, q.side, q.order_type, q.price)
          /\ UNCHANGED <<mdvars, agentvars>>
    \/ \E q \in MarketBuyRequests :
          market_buy(q.symbol, q.quantity, q.price) /\ UNCHANGED <<mdvars, agentvars>>
    \/ \E q \in MarketSellRequests :
          market_sell(q.symbol, q.quantity, q.price) /\ UNCHANGED <<mdvars, agentvars>>
    \/ \E order_id \in OrderIdInputs :
          \/ get_order_status(order_id) /\ UNCHANGED <<mdvars, agentvars>>
          \/ cancel_order(order_id) /\ UNCHANGED <<mdvars, agentvars>>
    \/ get_positions /\ UNCHANGED <<mdvars, agentvars>>
    \/ \E symbol \in Symbols :
          close_position(symbol) /\ UNCHANGED <<mdvars, agentvars>>

Spec == Init /\ [][Next]_vars

-----------------------------------------------------------------------------
(* The position ledger under sequences of fills: a paper client, just      *)
(* constructed, that receives valid orders of several sizes and prices     *)

\* argument lists of place_order that pass its checks: buys and sells of
\* 1, 2 and 3 shares at different prices, one of them without a price and
\* one with a price that is no number
FillRequests ==
    {Request("RELIANCE", Num(4), "buy", "limit", 10),
     Request("RELIANCE", Num(2), "BUY", "limit", 14),
     Request("RELIANCE", Num(4), "sell", "limit", 20),
     Request("RELIANCE", Num(6), "SELL", "market", 20),
     Request("NIFTY", Num(2), "buy", "market", NoneVal),
     Request("NIFTY", Num(2), "sell", "limit", 30),
     Request("NIFTY", Num(2), "buy", "limit", NotAPrice)}

\* UpstoxRestClient(paper_mode=True) right after __init__ returned
LedgerInit ==
    /\ instance = "ready"
    /\ paper_mode = TRUE
    /\ default_lot_sizes = DefaultLotSizes
    /\ api_key = FALSE
    /\ api_secret = FALSE
    /\ auth_token = "paper"
    /\ auth_expires_at = PaperTokenLifetime
    /\ paper_orders = EmptyDict
    /\ paper_positions = EmptyDict
    /\ now = 0
    /\ uuid_draws = 0
    /\ http_requests = 0
    /\ last = Call("__init__", 0, "no")
    /\ MDIdle
    /\ AgentIdle

LedgerNext ==
    \/ \E q \in FillRequests :
          /\ place_order(q.symbol, q.quantity, q.side, q.order_type, q.price)
          /\ UNCHANGED <<mdvars, agentvars>>
    \/ get_positions /\ UNCHANGED <<mdvars, agentvars>>
    \/ \E symbol \in Symbols :
          close_position(symbol) /\ UNCHANGED <<mdvars, agentvars>>

SpecLedger == LedgerInit /\ [][LedgerNext]_vars


-----------------------------------------------------------------------------
(* Properties of the paper broker *)

PlaceOps == {"place_order", "market_buy", "market_sell"}

\* the quantity argument is a positive integer
IsPositiveInteger(quantity) ==
    quantity.t = "num" /\ quantity.h > 0 /\ quantity.h % 2 = 0

\* the value of the quantity argument, when it is an integer
IntegerValue(quantity) == quantity.h \div 2

Paper == instance = "ready" /\ paper_mode

\* the fields of an order other than status and cancellation timestamp
Identity(order) ==
    [f \in (DOMAIN order) \ {"status", "cancelled_at"} |-> order[f]]

\* C1: in paper mode a place_order with a positive integer quantity and a
\* side of buy or sell returns an order with status 'placed' whose
\* filled_quantity is the requested quantity, and get_order_status with the
\* returned order_id, asked right after, returns that same order, 'placed'.
C1_PlacedFilledAndFound ==
    [][\A q \in OrderRequests :
          (/\ Paper
           /\ IsPositiveInteger(q.quantity)
           /\ Lower(q.side) \in {"buy", "sell"}
           /\ place_order(q.symbol, q.quantity, q.side, q.order_type, q.price))
          => /\ last'.out = "order"
             /\ last'.id \in DOMAIN paper_orders'
             /\ paper_orders'[last'.id].order_id = last'.id
             /\ paper_orders'[last'.id].status = "placed"
             /\ paper_orders'[last'.id].filled_quantity = IntegerValue(q.quantity)
             /\ OrderStatus(paper_orders', last'.id) = paper_orders'[last'.id]
             /\ OrderStatus(paper_orders', last'.id).status = "placed"]_vars

\* C1 witness: place_order has just returned a one-share order
C1_Witness ==
    /\ Paper
    /\ last.op = "place_order"
    /\ last.out = "order"
    /\ paper_orders[last.id].filled_quantity = 1

\* C2: a client in paper mode has performed no HTTP request, whatever calls
\* were made on it.
C2_PaperNoHttp == Paper => http_requests = 0

\* C2 witness: a paper client on which close_position has placed the second
\* of two orders
C2_Witness ==
    /\ Paper
    /\ last.op = "close_position"
    /\ last.id # 0
    /\ Cardinality(DOMAIN paper_orders) = 2
    /\ http_requests = 0

\* C3: constructing with paper_mode=False while the key or the secret is
\* missing raises RuntimeError, sends no HTTP request and leaves no client
\* with a live token.
C3_LiveNeedsCredentials ==
    [][\A pm_env \in EnvPaperModes, key \in BOOLEAN, secret \in BOOLEAN,
          r \in TokenResponses :
          (~(key /\ secret) /\ Construct("False", pm_env, key, secret, r))
          => /\ last'.out = "RuntimeError"
             /\ http_requests' = http_requests
             /\ instance' # "ready"
             /\ auth_token' # "live"]_vars

\* C3 witness: a live construction has just raised RuntimeError
C3_Witness ==
    /\ last.op = "__init__"
    /\ last.out = "RuntimeError"
    /\ ~paper_mode
    /\ ~(api_key /\ api_secret)
    /\ instance = "failed"

\* C4: place_order with a side other than buy/sell or a quantity that is not
\* a positive integer raises an error and changes neither ledger.
C4_InvalidOrderRejected ==
    [][\A q \in OrderRequests :
          (/\ Paper
           /\ (Lower(q.side) \notin {"buy", "sell"} \/ ~IsPositiveInteger(q.quantity))
           /\ place_order(q.symbol, q.quantity, q.side, q.order_type, q.price))
          => /\ last'.out \in Errors
             /\ UNCHANGED <<paper_orders, paper_positions>>]_vars

\* C5: place_order with an order kind that is neither market nor limit raises
\* and records no order and no fill.
C5_UnknownKindRejected ==
    [][\A q \in OrderRequests :
          (/\ Paper
           /\ q.order_type \notin {"market", "limit"}
           /\ place_order(q.symbol, q.quantity, q.side, q.order_type, q.price))
          => /\ last'.out \in Errors
             /\ UNCHANGED <<paper_orders, paper_positions>>]_vars

\* C6: no two successful placements (close_position's included) return the
\* same order identifier: the ledger holds one entry, filed under its own
\* identifier, per successful placement.
C6_OrderIdsUnique ==
    Paper => /\ Cardinality(DOMAIN paper_orders) = uuid_draws
             /\ \A id \in DOMAIN paper_orders : paper_orders[id].order_id = id

\* C6 witness: two orders on file, the second placed by close_position
C6_Witness ==
    /\ Paper
    /\ uuid_draws = 2
    /\ last.op = "close_position"
    /\ last.id \in DOMAIN paper_orders
    /\ \E id \in DOMAIN paper_orders : id # last.id

\* C7: once an order is created, no later call changes any of its fields
\* other than status and cancellation timestamp.
C7_OrderIdentityFrozen ==
    [][\A id \in DOMAIN paper_orders :
          id \in DOMAIN paper_orders'
          => Identity(paper_orders'[id]) = Identity(paper_orders[id])]_vars

\* C7 witness: an order was cancelled and another order placed after it
C7_Witness ==
    /\ Paper
    /\ last.op \in PlaceOps
    /\ last.out = "order"
    /\ \E id \in DOMAIN paper_orders :
          id # last.id /\ paper_orders[id].status = "cancelled"

\* C8: an order on file stays on file; its status is PLACED or CANCELLED,
\* changes only by cancel_order, and once CANCELLED stays CANCELLED.
C8_StatusMonotone ==
    [][\A id \in DOMAIN paper_orders :
          /\ id \in DOMAIN paper_orders'
          /\ paper_orders'[id].status \in {"placed", "cancelled"}
          /\ paper_orders[id].status = "cancelled"
             => paper_orders'[id].status = "cancelled"
          /\ paper_orders'[id].status # paper_orders[id].status
             => last'.op = "cancel_order" /\ last'.id = id]_vars

\* C8 witness: cancel_order has just been called on an order that was
\* cancelled at an earlier clock reading
C8_Witness ==
    /\ Paper
    /\ last.op = "cancel_order"
    /\ last.out = "order"
    /\ paper_orders[last.id].status = "cancelled"
    /\ paper_orders[last.id].cancelled_at > paper_orders[last.id].timestamp

\* C9: cancel_order on an already-cancelled order returns it unchanged in
\* every field, the cancellation timestamp included.
C9_CancelIdempotent ==
    [][(/\ Paper
        /\ last'.op = "cancel_order"
        /\ last'.id \in DOMAIN paper_orders
        /\ paper_orders[last'.id].status = "cancelled")
       => paper_orders'[last'.id] = paper_orders[last'.id]]_vars

\* C10: cancel_order with an identifier never issued returns the not-found
\* result without raising and changes neither ledger.
C10_CancelUnknown ==
    [][\A id \in OrderIdInputs :
          (Paper /\ id \notin DOMAIN paper_orders /\ cancel_order(id))
          => /\ last'.out = "not_found"
             /\ last'.id = id
             /\ UNCHANGED <<paper_orders, paper_positions>>]_vars

\* C10 witness: cancel_order has just answered not_found while orders and a
\* position are on file
C10_Witness ==
    /\ Paper
    /\ last.op = "cancel_order"
    /\ last.out = "not_found"
    /\ last.id \notin DOMAIN paper_orders
    /\ paper_orders # EmptyDict
    /\ paper_positions # EmptyDict

\* C11: cancel_order never changes the position ledger: get_positions
\* reports the same rows before and after it, so the fill applied at
\* placement is not reversed.
C11_CancelKeepsPositions ==
    [][\A id \in OrderIdInputs :
          (Paper /\ cancel_order(id))
          => /\ paper_positions' = paper_positions
             /\ PositionRows(paper_positions') = PositionRows(paper_positions)]_vars

\* C11 witness: an order whose fill opened a position has just been
\* cancelled and the position is still reported
C11_Witness ==
    /\ Paper
    /\ last.op = "cancel_order"
    /\ last.out = "order"
    /\ paper_orders[last.id].side = "buy"
    /\ \E row \in PositionRows(paper_positions) :
          /\ row.symbol = paper_orders[last.id].symbol
          /\ row.quantity = paper_orders[last.id].filled_quantity

\* C12: get_order_status with an identifier never issued returns the
\* sentinel with status 'unknown' without raising and files nothing; with
\* an issued identifier it returns the stored order.
C12_StatusLookup ==
    [][\A id \in OrderIdInputs :
          (Paper /\ get_order_status(id))
          => /\ UNCHANGED <<paper_orders, paper_positions>>
             /\ last'.id = id
             /\ last'.out \notin Errors
             /\ IF id \in DOMAIN paper_orders
                THEN /\ last'.out = "order"
                     /\ OrderStatus(paper_orders', id) = paper_orders[id]
                ELSE /\ last'.out = "unknown"
                     /\ OrderStatus(paper_orders', id) =
                           [order_id |-> id, status |-> "unknown"]]_vars

\* C12 witness: get_order_status has just answered 'unknown' while another
\* order is on file
C12_Witness ==
    /\ Paper
    /\ last.op = "get_order_status"
    /\ last.out = "unknown"
    /\ last.id \notin DOMAIN paper_orders
    /\ paper_orders # EmptyDict

-----------------------------------------------------------------------------
(* Properties of the position ledger *)

\* the orders on file for a symbol: every fill it has had
FillsOf(orders, symbol) == {id \in DOMAIN orders : orders[id].symbol = symbol}

\* a fill's quantity, BUY positive and SELL negative
SignedQuantity(order) ==
    IF order.side = "buy" THEN order.quantity ELSE 0 - order.quantity

RECURSIVE SignedSum(_, _)
SignedSum(orders, ids) ==
    IF ids = {} THEN 0
    ELSE LET id == CHOOSE x \in ids : TRUE
         IN  SignedQuantity(orders[id]) + SignedSum(orders, ids \ {id})

\* the sum of price times quantity over fills that carry a price
RECURSIVE NotionalSum(_, _)
NotionalSum(orders, ids) ==
    IF ids = {} THEN 0
    ELSE LET id == CHOOSE x \in ids : TRUE
         IN  orders[id].price * orders[id].quantity
             + NotionalSum(orders, ids \ {id})

\* the net quantity the ledger holds for a symbol (0 when it has no row)
HeldQuantity(positions, symbol) ==
    IF symbol \in DOMAIN positions THEN positions[symbol].quantity ELSE 0

\* every fill of the symbol had the given side and an explicit price
SameDirection(orders, symbol, side) ==
    /\ FillsOf(orders, symbol) # {}
    /\ \A id \in FillsOf(orders, symbol) :
          orders[id].side = side /\ orders[id].price # NoneVal

\* C13: after same-direction fills with explicit prices from flat (all BUY
\* or all SELL) the net quantity is the signed sum of the fills and
\* avg_price times |net quantity| is the sum of price times quantity.
C13_FillConservation ==
    Paper =>
    \A symbol \in Symbols :
       LET ids == FillsOf(paper_orders, symbol)
       IN  (\/ SameDirection(paper_orders, symbol, "buy")
            \/ SameDirection(paper_orders, symbol, "sell"))
           => /\ symbol \in DOMAIN paper_positions
              /\ paper_positions[symbol].quantity = SignedSum(paper_orders, ids)
              /\ RatMulInt(paper_positions[symbol].avg_price,
                           Abs(paper_positions[symbol].quantity))
                    = RatInt(NotionalSum(paper_orders, ids))

\* C14: the net quantity held for a symbol is the signed sum of all its
\* fills, so a SELL beyond the long quantity or from flat leaves a short
\* (negative) position on which later fills accumulate.
C14_SignedNetQuantity ==
    Paper =>
    \A symbol \in Symbols :
       LET net == SignedSum(paper_orders, FillsOf(paper_orders, symbol))
       IN  /\ HeldQuantity(paper_positions, symbol) = net
           /\ net < 0 => /\ symbol \in DOMAIN paper_positions
                         /\ paper_positions[symbol].quantity < 0

\* C15: a symbol whose net quantity has come back to exactly zero is absent
\* from the rows of get_positions: a fill that sells the whole held
\* quantity removes the row, and no row ever reports quantity zero.
C15_FlatRemoved ==
    [][\A q \in FillRequests :
          (/\ Paper
           /\ place_order(q.symbol, q.quantity, q.side, q.order_type, q.price))
          => /\ \A row \in PositionRows(paper_positions') : row.quantity # 0
             /\ (Lower(q.side) = "sell"
                 /\ HeldQuantity(paper_positions, q.symbol)
                       = IntegerValue(q.quantity))
                => /\ q.symbol \notin DOMAIN paper_positions'
                   /\ \A row \in PositionRows(paper_positions') :
                         row.symbol # q.symbol]_vars

\* C15 witness: a position of two shares was opened and has just been sold
\* in full; its symbol has no row
C15_Witness ==
    /\ Paper
    /\ last.op = "place_order"
    /\ last.out = "order"
    /\ paper_orders[last.id].side = "sell"
    /\ LET symbol == paper_orders[last.id].symbol
       IN  /\ Cardinality(FillsOf(paper_orders, symbol)) = 2
           /\ SignedSum(paper_orders, FillsOf(paper_orders, symbol)) = 0
           /\ \A row \in PositionRows(paper_positions) : row.symbol # symbol

\* C20: an order placed without an explicit price, the market order of
\* close_position included, is filled at a current price from the price
\* source: the order records an execution price and the position's average
\* price is not zero.
C20_FillAtCurrentPrice ==
    [][Paper =>
       \A id \in (DOMAIN paper_orders') \ (DOMAIN paper_orders) :
          LET order == paper_orders'[id]
          IN  /\ order.price # NoneVal
              /\ order.price # 0
              /\ order.symbol \in DOMAIN paper_positions'
                 => ~RatIsZero(paper_positions'[order.symbol].avg_price)]_vars

-----------------------------------------------------------------------------
(* Properties of the agent-facing adapter *)

\* the trade a step has just executed, when it executed one
Traded == Len(trades') = Len(trades) + 1
NewTrade == trades'[Len(trades')]

\* quantity and average price the adapter holds for a symbol before a fill
MDQuantity(positions, symbol) ==
    IF symbol \in DOMAIN positions THEN positions[symbol].quantity ELSE 0
MDAvgPrice(positions, symbol) ==
    IF symbol \in DOMAIN positions THEN positions[symbol].avg_price
    ELSE RatInt(0)

\* starting capital minus BUY notionals plus SELL notionals of the first n
\* trades
RECURSIVE CashAfterTrades(_, _)
CashAfterTrades(ts, n) ==
    IF n = 0 THEN RatInt(StartingCapital)
    ELSE LET notional == RatMulInt(ts[n].price, ts[n].quantity)
         IN  IF ts[n].side = "BUY"
             THEN RatSub(CashAfterTrades(ts, n - 1), notional)
             ELSE RatAdd(CashAfterTrades(ts, n - 1), notional)

\* sum of current_price times quantity over rows of get_all_positions
RECURSIVE RowValue(_, _)
RowValue(rows, syms) ==
    IF syms = {} THEN RatInt(0)
    ELSE LET sym == CHOOSE x \in syms : TRUE
         IN  RatAdd(RatMulInt(rows[sym].current_price, rows[sym].quantity),
                    RowValue(rows, syms \ {sym}))

\* C16: in UpstoxMarketData a symbol whose net quantity is back to exactly
\* zero is removed from paper_positions and is not in get_all_positions():
\* no zero-quantity row is kept.
C16_AdapterFlatRemoved ==
    md_paper_mode =>
       /\ \A sym \in DOMAIN md_paper_positions :
             md_paper_positions[sym].quantity # 0
       /\ \A sym \in DOMAIN AllPositions(md_paper_positions, current_price) :
             AllPositions(md_paper_positions, current_price)[sym].quantity # 0

\* C17: _place_paper_trade changes avg_price only on a fill that adds to the
\* position in its direction (BUY on long or flat, SELL on short or flat),
\* where it becomes the quantity-weighted mean; a reducing or flipping fill
\* leaves avg_price as it was.
C17_AvgOnlyOnIncrease ==
    [][(md_paper_mode /\ Traded) =>
       LET sym == NewTrade.symbol
           old_qty == MDQuantity(md_paper_positions, sym)
           old_avg == MDAvgPrice(md_paper_positions, sym)
           new_qty == MDQuantity(md_paper_positions', sym)
           new_avg == MDAvgPrice(md_paper_positions', sym)
           increasing == \/ NewTrade.side = "BUY" /\ old_qty >= 0
                         \/ NewTrade.side = "SELL" /\ old_qty <= 0
       IN  IF increasing
           THEN RatMulInt(new_avg, Abs(new_qty)) =
                   RatAdd(RatMulInt(old_avg, Abs(old_qty)),
                          RatMulInt(NewTrade.price, NewTrade.quantity))
           ELSE new_avg = old_avg]_vars

\* C18: available cash is the starting capital minus price times quantity of
\* every BUY fill plus price times quantity of every SELL fill, whichever
\* position branch the fill took.
C18_CashConservation ==
    md_paper_mode =>
       /\ paper_capital_inr = CashAfterTrades(trades, Len(trades))
       /\ AccountBalance(md_paper_mode, paper_capital_inr, md_paper_positions,
                         current_price).available_cash_inr
             = Round2(CashAfterTrades(trades, Len(trades)))

\* C18 witness: three trades, BUY and SELL among them, one priced by the
\* price source, have left a short position
C18_Witness ==
    /\ md_paper_mode
    /\ Len(trades) = 3
    /\ \E i, j, k \in 1 .. 3 :
          /\ trades[i].side = "BUY"
          /\ trades[j].side = "SELL"
          /\ trades[k].price = current_price[trades[k].symbol]
    /\ \E sym \in DOMAIN md_paper_positions :
          md_paper_positions[sym].quantity < 0

\* C19: get_account_balance reports, to two decimals, available cash plus
\* the sum over all positions of current price times net quantity; after a
\* single BUY of q at the current price p the account value is the starting
\* capital.
C19_AccountValue ==
    md_paper_mode =>
       LET balance == AccountBalance(md_paper_mode, paper_capital_inr,
                                     md_paper_positions, current_price)
           rows == AllPositions(md_paper_positions, current_price)
       IN  /\ balance.account_value_inr =
                 Round2(RatAdd(paper_capital_inr, RowValue(rows, DOMAIN rows)))
           /\ (/\ Len(trades) = 1
               /\ trades[1].side = "BUY"
               /\ trades[1].price = current_price[trades[1].symbol])
              => balance.account_value_inr = RatInt(StartingCapital)

\* C19 witness: get_account_balance is called after a single BUY at the
\* current price: cash is down by the notional, account value is unchanged
C19_Witness ==
    /\ md_paper_mode
    /\ last.op = "get_account_balance"
    /\ Len(trades) = 1
    /\ trades[1].side = "BUY"
    /\ trades[1].price = current_price[trades[1].symbol]
    /\ paper_capital_inr = RatSub(RatInt(StartingCapital), trades[1].price)
    /\ AccountBalance(md_paper_mode, paper_capital_inr, md_paper_positions,
                      current_price).account_value_inr = RatInt(StartingCapital)

\* C21: an order without a price, placed while the price source fails, ends
\* in an error and applies no fill: no price is made up, positions and cash
\* stay as they were.
C21_NoFabricatedPrice ==
    [][\A q \in BuyRequests \cup SellRequests, side \in {"BUY", "SELL"} :
          (/\ md_paper_mode
           /\ q.price = NoneVal
           /\ PaperTradeStep(IF side = "BUY" THEN "md.market_buy"
                             ELSE "md.market_sell",
                             q.symbol, side, q.quantity, q.price, FALSE,
                             "success", "failed"))
          => /\ last'.out \in Errors \cup {"failed"}
             /\ UNCHANGED <<md_paper_positions, paper_capital_inr, trades>>]_vars

-----------------------------------------------------------------------------
(* Properties of close_position *)

\* the orders a step has added to the order ledger
NewOrders == (DOMAIN paper_orders') \ (DOMAIN paper_orders)

\* C22: close_position on a symbol held with quantity q # 0 records exactly
\* one new order, of the opposite side, kind market and quantity |q|, leaves
\* the symbol out of get_positions and returns True; on a symbol with no
\* position or quantity zero it returns True and records no order.
C22_CloseFlattens ==
    [][\A symbol \in Symbols :
          (Paper /\ close_position(symbol)) =>
          LET q == HeldQuantity(paper_positions, symbol)
          IN  /\ last'.out = "True"
              /\ \A id \in DOMAIN paper_orders :
                    paper_orders'[id] = paper_orders[id]
              /\ IF q # 0
                 THEN /\ Cardinality(NewOrders) = 1
                      /\ \A id \in NewOrders :
                            /\ paper_orders'[id].symbol = symbol
                            /\ paper_orders'[id].side =
                                  (IF q > 0 THEN "sell" ELSE "buy")
                            /\ paper_orders'[id].order_type = "market"
                            /\ paper_orders'[id].quantity = Abs(q)
                      /\ \A row \in PositionRows(paper_positions') :
                            row.symbol # symbol
                      /\ \A other \in Symbols \ {symbol} :
                            HeldQuantity(paper_positions', other) =
                               HeldQuantity(paper_positions, other)
                 ELSE /\ NewOrders = {}
                      /\ UNCHANGED <<paper_orders, paper_positions>>]_vars

\* C22 witness: close_position has just sold a position of two shares
C22_Witness ==
    /\ Paper
    /\ last.op = "close_position"
    /\ last.out = "True"
    /\ last.id \in DOMAIN paper_orders
    /\ paper_orders[last.id].side = "sell"
    /\ paper_orders[last.id].order_type = "market"
    /\ paper_orders[last.id].quantity = 2
    /\ paper_orders[last.id].symbol \notin DOMAIN paper_positions

\* C23: close_position called twice in a row acts as once: after the first
\* call the symbol is flat, and the second call records no order, changes no
\* position and returns True.
C23_CloseTwice ==
    [][\A symbol \in Symbols :
          (Paper /\ close_position(symbol)) =>
          /\ symbol \notin DOMAIN paper_positions'
          /\ (/\ last.op = "close_position"
              /\ last.id \in DOMAIN paper_orders
              /\ paper_orders[last.id].symbol = symbol)
             => /\ last' = Call("close_position", 0, "True")
                /\ UNCHANGED <<paper_orders, paper_positions, uuid_draws>>]_vars

\* C23 witness: a close_position that had nothing to do, on a symbol whose
\* latest order is the closing order of an earlier close_position
C23_Witness ==
    /\ Paper
    /\ last = Call("close_position", 0, "True")
    /\ uuid_draws \in DOMAIN paper_orders
    /\ paper_orders[uuid_draws].side = "sell"
    /\ paper_orders[uuid_draws].order_type = "market"
    /\ paper_orders[uuid_draws].price = NoneVal
    /\ paper_orders[uuid_draws].symbol \notin DOMAIN paper_positions

-----------------------------------------------------------------------------
(* The two simulators side by side: every fill is sent both to              *)
(* UpstoxRestClient.place_order (the direct path) and to                    *)
(* upstox_marketdata.market_buy / market_sell (the path of the agent)       *)

\* fills with explicit positive prices
BothRequests ==
    {Request("RELIANCE", 2, "buy", "market", 10),
     Request("RELIANCE", 1, "buy", "market", 14),
     Request("RELIANCE", 2, "sell", "market", 20),
     Request("RELIANCE", 3, "sell", "market", 20),
     Request("NIFTY", 1, "buy", "market", 16),
     Request("NIFTY", 1, "sell", "market", 30)}

\* one fill, executed by both simulators
FillBoth(symbol, quantity, side, price) ==
    /\ instance = "ready"
    /\ UsePaperPath
    /\ md_paper_mode
    /\ Cardinality(DOMAIN paper_orders) < MaxOrders
    /\ Len(trades) < MaxTrades
    /\ \E t \in ClockReadings :
       LET p == PaperPlace(paper_orders, paper_positions, uuid_draws, t,
                           symbol, quantity, side, "market", price)
           md_side == IF side = "buy" THEN "BUY" ELSE "SELL"
           ltp == Ltp(price, current_price, symbol)
       IN  /\ now' = t
           /\ paper_orders' = p.orders
           /\ paper_positions' = p.positions
           /\ uuid_draws' = p.draws
           /\ md_paper_positions' =
                 PositionAfter(md_paper_positions, symbol, md_side, quantity, ltp)
           /\ paper_capital_inr' =
                 CapitalAfter(paper_capital_inr, md_side,
                              RatMulInt(ltp, quantity))
           /\ trades' = Append(trades,
                 [status |-> "success", trade_id |-> t, symbol |-> symbol,
                  side |-> md_side, quantity |-> quantity, price |-> ltp])
           /\ last' = Call("fill", p.order_id, "order")
    /\ UNCHANGED <<instance, paper_mode, default_lot_sizes, api_key, api_secret, auth_token,
                   auth_expires_at, http_requests, md_paper_mode,
                   current_price, agentvars>>

\* get_positions on the one, get_all_positions on the other
SnapshotBoth ==
    /\ instance = "ready"
    /\ last' = Call("snapshot", 0, "list")
    /\ UNCHANGED <<now, mdvars, restvars, agentvars>>

BothNext ==
    \/ \E q \in BothRequests : FillBoth(q.symbol, q.quantity, q.side, q.price)
    \/ SnapshotBoth

SpecBoth == LedgerInit /\ [][BothNext]_vars

\* C24: after every sequence of fills with explicit positive prices the two
\* simulators report the same symbols, and for each the same net quantity
\* and the same average price.
C24_PathsAgree ==
    LET direct == PositionRows(paper_positions)
        agent == AllPositions(md_paper_positions, current_price)
    IN  /\ {row.symbol : row \in direct} = DOMAIN agent
        /\ \A row \in direct :
              row.symbol \in DOMAIN agent
              => /\ agent[row.symbol].quantity = row.quantity
                 /\ agent[row.symbol].avg_price = row.avg_price

-----------------------------------------------------------------------------
(* The agent: BaseNof1Agent(exchange='upstox').execute_decision, whose      *)
(* adapter self.nf is the module exchange/upstox_marketdata                 *)

\* a decision dict; 0 stands for a field that is absent or falsy, and
\* quantity_lots, a number, is counted in half lots (Lots(n) is n lots)
Lots(n) == 2 * n
HalfLot == 1
Decision(decision, symbol, quantity_lots, lot_size, notional, entry_price) ==
    [decision |-> decision, symbol |-> symbol, quantity_lots |-> quantity_lots,
     lot_size |-> lot_size, notional |-> notional, entry_price |-> entry_price]

\* decisions the model hands to the agent; "missing" has no decision field
Decisions ==
    {Decision("DO_NOTHING", "NIFTY", 0, 0, 0, 0),
     Decision("missing", "RELIANCE", Lots(2), 0, 0, 10),
     Decision("CLOSE_POSITION", "RELIANCE", 0, 0, 0, 0),
     Decision("OPEN_LONG", "RELIANCE", Lots(2), 0, 0, 10),
     Decision("OPEN_SHORT", "RELIANCE", Lots(1), 1, 0, 20),
     Decision("OPEN_LONG", "NIFTY", 0, 0, 60000, 0),
     Decision("OPEN_LONG", "RELIANCE", 0, 3, 5000, 0),
     Decision("OPEN_LONG", "NIFTY", HalfLot, 0, 0, 10),
     Decision("HOLD", "RELIANCE", Lots(1), 0, 0, 10)}

\* a reading of the decision field that opens a long when it is missing
DecisionAction_defaultlong(d) ==
    IF d.decision = "missing" THEN "OPEN_LONG" ELSE d.decision

\* decision.get('decision', 'DO_NOTHING')
DecisionAction(d) ==
    IF d.decision = "missing" THEN "DO_NOTHING" ELSE d.decision

\* upstox_marketdata.get_lot_size: DEFAULT_LOT_SIZES.get(symbol.upper(), 1)
MDLotSize(symbol) ==
    CASE symbol \in {"NIFTY", "nifty", "Nifty"} -> 50
      [] symbol \in {"BANKNIFTY", "banknifty"} -> 15
      [] OTHER -> 1

\* Python a // b for a float a > 0 given as a rational and an integer b > 0
FloorDiv(a, b) == a[1] \div (a[2] * b)

\* the quantity _open_position sends to the adapter; quote is what
\* get_current_price returned
OpenQuantity(d, quote) ==
    LET lot_size == IF d.lot_size # 0 THEN d.lot_size ELSE MDLotSize(d.symbol)
    IN  IF d.quantity_lots # 0
        THEN PyInt(d.quantity_lots) * lot_size
        ELSE IF d.notional # 0 /\ quote[1] > 0
             THEN LET ratio == Rat(d.notional * quote[2], quote[1])
                      approx_qty == FloorDiv(ratio, lot_size) * lot_size
                  IN  Max(approx_qty, lot_size)
             ELSE lot_size

execute_decision(d) ==
    LET action == DecisionAction(d)
        op == "execute_decision"
    IN  IF action = "DO_NOTHING"
        THEN /\ last' = Call(op, 0, "True: nothing done")
             /\ UNCHANGED <<now, mdvars, restvars>>
        ELSE IF action = "CLOSE_POSITION"
        THEN \* self.nf._get_account_from_env: upstox_marketdata has no such
             \* attribute; the AttributeError is caught and False returned
             /\ last' = Call(op, 0, "False: close failed")
             /\ UNCHANGED <<now, mdvars, restvars>>
        ELSE IF action \in {"OPEN_LONG", "OPEN_SHORT"}
        THEN \E quote_ok \in BOOLEAN, data_ok \in BOOLEAN :
                PaperTradeStep(op, d.symbol,
                               IF action = "OPEN_LONG" THEN "BUY" ELSE "SELL",
                               OpenQuantity(d, GetCurrentPrice(current_price,
                                                               d.symbol, quote_ok)),
                               d.entry_price, data_ok,
                               "True: opened", "True: opened")
        ELSE /\ last' = Call(op, 0, "False: unknown action")
             /\ UNCHANGED <<now, mdvars, restvars>>

AgentNext ==
    \/ \E d \in Decisions : execute_decision(d) /\ UNCHANGED agentvars
    \/ get_all_positions
    \/ get_account_balance

SpecAgent == MDInit /\ [][AgentNext]_vars

\* C25: a DO_NOTHING decision, or one with no decision field, makes
\* execute_decision return True without reaching the adapter: no trade is
\* executed, positions, cash and the clock reading are unchanged.
C25_DoNothing ==
    [][\A d \in Decisions :
          (d.decision \in {"DO_NOTHING", "missing"} /\ execute_decision(d))
          => /\ last'.op = "execute_decision"
             /\ last'.out = "True: nothing done"
             /\ UNCHANGED <<md_paper_positions, paper_capital_inr, trades, now,
                            restvars>>]_vars

\* C25 witness: execute_decision has just returned True for a DO_NOTHING
\* decision while a position is open
C25_Witness ==
    /\ last = Call("execute_decision", 0, "True: nothing done")
    /\ md_paper_mode
    /\ trades # << >>
    /\ md_paper_positions # EmptyDict

\* C26: a CLOSE decision for a symbol with an open paper position closes
\* it: after execute_decision the symbol's net quantity in the adapter is
\* zero (no position) and the call reports success.
C26_CloseDecision ==
    [][\A d \in Decisions :
          (/\ md_paper_mode
           /\ d.decision = "CLOSE_POSITION"
           /\ MDQuantity(md_paper_positions, d.symbol) # 0
           /\ execute_decision(d))
          => /\ last'.out \in {"True: nothing done", "True: opened", "True"}
             /\ MDQuantity(md_paper_positions', d.symbol) = 0]_vars

-----------------------------------------------------------------------------
(* Properties of the states between calls *)

\* C27: no state between calls shows a partially applied fill: every step
\* that records an order returns without an error and leaves the position
\* ledger with that order's fill applied (close_position: applied and the
\* symbol dropped).
C27_NoPartialFill ==
    [][\A id \in NewOrders :
          LET o == paper_orders'[id]
              filled == ApplyFill(paper_positions, o.symbol, o.side,
                                  o.quantity, o.price)
          IN  /\ last'.out \notin Errors
              /\ paper_positions' \in {filled, Pop(filled, o.symbol)}]_vars

\* C28: get_positions marks every open position with the price source's
\* price at the time of the snapshot: each row it returns carries the current
\* price of its symbol, not a price kept from an earlier call.
C28_FreshMarks ==
    [][(Paper /\ get_positions) =>
          \A row \in PositionRows(paper_positions') :
             row.current_price = current_price'[row.symbol]]_vars

-----------------------------------------------------------------------------
(* The helpers of UpstoxRestClient: lots and margin *)

\* what a helper call leaves for its caller: the value returned, or the
\* exception raised
Returned(value) == [raised |-> "no", value |-> value]
Raised(error) == [raised |-> error, value |-> NoneVal]

\* the quantities and lot sizes callers pass: every share count up to
\* MaxQuantity; no lot size (None), a negative one, zero, one and sizes above one
Quantities == 0 .. MaxQuantity
LotSizeInputs == {NoneVal, 0 - 3, 0, 1, 2, 3, 5}

\* notionals in INR of either sign, and leverages n/d: zero, negative,
\* below one, one and above one
Notionals == (0 - MaxNotional) .. MaxNotional
Leverages == {Rat(0, 1), Rat(0 - 1, 1), Rat(0 - 1, 2), Rat(1, 2), Rat(1, 1),
              Rat(3, 1), Rat(10, 1)}

\* Python `lot_size or 1` for an optional int
LotOr(lot_size) == IF lot_size = NoneVal \/ lot_size = 0 THEN 1 ELSE lot_size

\* a normalisation to the next whole lot above
NormalizeQuantity_ceil(quantity, lot_size) ==
    LET lot == LotOr(lot_size)
    IN  IF lot <= 1 THEN quantity
        ELSE ((quantity + lot - 1) \div lot) * lot

\* the value normalize_quantity_to_lots returns
NormalizeQuantity(quantity, lot_size) ==
    LET lot == LotOr(lot_size)
    IN  IF lot <= 1 THEN quantity
        ELSE (quantity \div lot) * lot

normalize_quantity_to_lots(quantity, lot_size) ==
    /\ instance = "ready"
    /\ last' = Call("normalize_quantity_to_lots", <<quantity, lot_size>>,
                    Returned(NormalizeQuantity(quantity, lot_size)))
    /\ UNCHANGED <<now, restvars, mdvars, agentvars>>

\* a margin that keeps the sign of the notional
Margin_signed(notional_in_inr, leverage) ==
    Rat(notional_in_inr * leverage[2], leverage[1])

\* abs(notional_in_inr) / float(leverage) for a leverage above zero
Margin(notional_in_inr, leverage) ==
    Rat(Abs(notional_in_inr) * leverage[2], leverage[1])

calculate_margin(notional_in_inr, leverage) ==
    /\ instance = "ready"
    /\ last' = Call("calculate_margin", <<notional_in_inr, leverage>>,
                    IF leverage[1] <= 0 THEN Raised("ValueError: leverage")
                    ELSE Returned(Margin(notional_in_inr, leverage)))
    /\ UNCHANGED <<now, restvars, mdvars, agentvars>>

\* an expiry_date argument: a text of the shape digits-digits-digits with
\* the numbers it spells, any other text, or no string at all (None)
ExpiryText(kind, y, m, d) == [kind |-> kind, y |-> y, m |-> m, d |-> d]
ExpiryInputs ==
    {ExpiryText("ymd", y, m, d) :
        y \in {2027, 2028}, m \in {0, 1, 2, 12, 13},
        d \in {0, 1, 28, 29, 30, 32}}
    \cup {ExpiryText("text", 0, 0, 0), ExpiryText("None", 0, 0, 0)}

\* what datetime.now().date() may be when validate_expiry reads it
Todays == {<<2026, 12, 31>>, <<2027, 2, 28>>, <<2028, 2, 29>>}

IsLeap(y) == (y % 4 = 0 /\ y % 100 # 0) \/ y % 400 = 0
DaysInMonth(y, m) ==
    CASE m = 2 -> IF IsLeap(y) THEN 29 ELSE 28
      [] m \in {4, 6, 9, 11} -> 30
      [] OTHER -> 31

\* no date: strptime raised
NoDate == << >>

\* datetime.strptime(expiry_date, '%Y-%m-%d').date(): the date, or NoDate
\* when strptime raises (TypeError for a non-string, ValueError for a text
\* of another shape, a month outside 1..12 or a day the month does not have)
ParseDate(text) ==
    IF text.kind # "ymd" THEN NoDate
    ELSE IF text.m \notin 1 .. 12 THEN NoDate
    ELSE IF text.d \notin 1 .. DaysInMonth(text.y, text.m) THEN NoDate
    ELSE <<text.y, text.m, text.d>>

\* a comparison that lets today itself pass
DateAfter_orsame(a, b) ==
    \/ a[1] > b[1]
    \/ a[1] = b[1] /\ a[2] > b[2]
    \/ a[1] = b[1] /\ a[2] = b[2] /\ a[3] >= b[3]

\* `dt > today` on datetime.date
DateAfter(a, b) ==
    \/ a[1] > b[1]
    \/ a[1] = b[1] /\ a[2] > b[2]
    \/ a[1] = b[1] /\ a[2] = b[2] /\ a[3] > b[3]

\* validate_expiry: every exception of the try block becomes False
validate_expiry(expiry_date, today) ==
    /\ instance = "ready"
    /\ last' = Call("validate_expiry", <<expiry_date, today>>,
                    LET dt == ParseDate(expiry_date)
                    IN  IF dt = NoDate THEN Returned(FALSE)
                        ELSE Returned(DateAfter(dt, today)))
    /\ UNCHANGED <<now, restvars, mdvars, agentvars>>

HelperNext ==
    \/ \E quantity \in Quantities, lot_size \in LotSizeInputs :
          normalize_quantity_to_lots(quantity, lot_size)
    \/ \E notional_in_inr \in Notionals, leverage \in Leverages :
          calculate_margin(notional_in_inr, leverage)
    \/ \E expiry_date \in ExpiryInputs, today \in Todays :
          validate_expiry(expiry_date, today)

SpecHelpers == LedgerInit /\ [][HelperNext]_vars

-----------------------------------------------------------------------------
(* Properties of the helpers *)

C30_Margin ==
    [][\A N \in Notionals, lev \in Leverages :
          (last'.op = "calculate_margin" /\ calculate_margin(N, lev)) =>
             IF lev[1] > 0
             THEN /\ last'.out.raised = "no"
                  /\ last'.out.value[2] > 0
                  /\ last'.out.value[1] * lev[1]
                        = Abs(N) * lev[2] * last'.out.value[2]
             ELSE last'.out = Raised("ValueError: leverage")]_vars

\* a notional of -6 at leverage 3 has margin 2
C30_Witness ==
    /\ last.op = "calculate_margin"
    /\ last.id = <<0 - 6, Rat(3, 1)>>
    /\ last.out = Returned(Rat(2, 1))

\* days from 1 January of year 1 to the date y-m-d
RECURSIVE DaysBeforeMonth(_, _)
DaysBeforeMonth(y, m) ==
    IF m <= 1 THEN 0 ELSE DaysInMonth(y, m - 1) + DaysBeforeMonth(y, m - 1)
Ordinal(y, m, d) ==
    365 * (y - 1) + ((y - 1) \div 4) - ((y - 1) \div 100) + ((y - 1) \div 400)
    + DaysBeforeMonth(y, m) + d

\* the text spells a date of the calendar
IsCalendarDate(text) ==
    /\ text.kind = "ymd"
    /\ text.m \in 1 .. 12
    /\ text.d \in 1 .. DaysInMonth(text.y, text.m)

-----------------------------------------------------------------------------
(* Lot sizes: a paper client constructed over any lot table *)

\* the symbols callers ask a lot size for, in several spellings
LotSymbols == {"NIFTY", "nifty", "Nifty", "BANKNIFTY", "banknifty",
               "RELIANCE", "reliance", ""}

\* str.upper() on those symbols
Upper(symbol) ==
    CASE symbol \in {"NIFTY", "nifty", "Nifty"} -> "NIFTY"
      [] symbol \in {"BANKNIFTY", "banknifty"} -> "BANKNIFTY"
      [] symbol \in {"RELIANCE", "reliance"} -> "RELIANCE"
      [] OTHER -> symbol

\* the value of get_lot_size: 1 for an empty symbol, else the entry under
\* the upper-cased symbol, else 1
LotSizeOf(table, symbol) ==
    IF symbol = "" THEN 1
    ELSE IF Upper(symbol) \in DOMAIN table THEN table[Upper(symbol)] ELSE 1

get_lot_size(symbol) ==
    /\ instance = "ready"
    /\ last' = Call("get_lot_size", <<symbol>>,
                    Returned(LotSizeOf(default_lot_sizes, symbol)))
    /\ UNCHANGED <<now, restvars, mdvars, agentvars>>

\* UpstoxRestClient(paper_mode=True, default_lot_sizes=arg) after __init__
LotsInit ==
    /\ instance = "ready"
    /\ paper_mode = TRUE
    /\ \E arg \in LotSizesArgs : default_lot_sizes = LotSizesOr(arg)
    /\ api_key = FALSE
    /\ api_secret = FALSE
    /\ auth_token = "paper"
    /\ auth_expires_at = PaperTokenLifetime
    /\ paper_orders = EmptyDict
    /\ paper_positions = EmptyDict
    /\ now = 0
    /\ uuid_draws = 0
    /\ http_requests = 0
    /\ last = Call("__init__", 0, "no")
    /\ MDIdle
    /\ AgentIdle

LotsNext ==
    \/ \E symbol \in LotSymbols : get_lot_size(symbol)
    \/ \E quantity \in Quantities, lot_size \in LotSizeInputs :
          normalize_quantity_to_lots(quantity, lot_size)

SpecLots == LotsInit /\ [][LotsNext]_vars

\* two spellings of one symbol
SpellingsOf ==
    {{"NIFTY", "nifty", "Nifty"}, {"BANKNIFTY", "banknifty"},
     {"RELIANCE", "reliance"}, {""}}
SameSymbol(a, b) == \E g \in SpellingsOf : a \in g /\ b \in g

\* C32: get_lot_size(symbol) returns the configured lot size when some
\* configured underlying equals the symbol up to letter case, and 1 for
\* every other symbol; any other spelling of the symbol gets the same answer.
C32_LotSizeLookup ==
    [][\A symbol \in LotSymbols :
          (last'.op = "get_lot_size" /\ get_lot_size(symbol)) =>
             LET keys == {k \in DOMAIN default_lot_sizes : SameSymbol(k, symbol)}
                 r == last'.out.value
             IN  /\ last'.out.raised = "no"
                 /\ IF keys # {}
                    THEN \E k \in keys : r = default_lot_sizes[k]
                    ELSE r = 1
                 /\ \A other \in LotSymbols :
                       SameSymbol(other, symbol)
                          => LotSizeOf(default_lot_sizes, other) = r]_vars

-----------------------------------------------------------------------------
(* Properties of the live path *)

\* the operations that send a request to an order endpoint in live mode
LiveOps == {"place_order", "market_buy", "market_sell", "get_order_status",
            "cancel_order", "get_positions", "close_position"}

\* at time t the token is missing, or fewer than 30 seconds are left to its
\* recorded expiry, or the expiry is past
Stale(tok, exp, t) == tok = "None" \/ t + RefreshMargin > exp

\* C33: in live mode every request of an order operation comes after
\* _ensure_auth: when the token is missing or within 30 seconds of (or past)
\* its expiry, either a re-authentication completes first (one request to
\* the token endpoint, a new expiry recorded, then the operation's request)
\* or the token endpoint fails and the operation's request is not sent; a
\* fresh token is used as it is, with the operation's request only.
C33_AuthBeforeRequest ==
    [][(/\ instance = "ready" /\ ~paper_mode
        /\ last'.op \in LiveOps
        /\ http_requests' # http_requests) =>
          LET sent == http_requests' - http_requests
          IN  IF Stale(auth_token, auth_expires_at, now')
              THEN \/ /\ sent = 2
                      /\ last'.out \in {"json", "HTTPError"}
                      /\ auth_expires_at' >= now' + RefreshMargin
                   \/ /\ sent = 1
                      /\ last'.out = "HTTPError"
                      /\ UNCHANGED <<auth_token, auth_expires_at>>
              ELSE /\ sent = 1
                   /\ last'.out \in {"json", "HTTPError"}
                   /\ UNCHANGED <<auth_token, auth_expires_at>>]_vars

\* a live client whose token was renewed at time 1, before the request of
\* an order operation that then succeeded
C33_Witness ==
    /\ instance = "ready" /\ ~paper_mode
    /\ last.op \in LiveOps /\ last.out = "json"
    /\ http_requests = 3
    /\ now = 1
    /\ auth_token = "live"
    /\ auth_expires_at = 1 + 30

-----------------------------------------------------------------------------
(* The shared client of the module: get_upstox_client *)

\* get_upstox_client(paper_mode): _default_client is built on the first call
\* that finds none (a constructor that raised leaves none behind) and is
\* returned as it is by every later call, whatever paper_mode that call names
get_upstox_client(pm_arg, pm_env, key, secret, r) ==
    LET op == "get_upstox_client"
    IN  IF instance = "ready"
        THEN /\ last' = Call(op, pm_arg, IF paper_mode THEN "paper client"
                                         ELSE "live client")
             /\ UNCHANGED <<now, restvars>>
        ELSE \E t \in ClockReadings :
             LET pm == DeterminePaperMode(pm_arg, pm_env)
                 a == authenticate_live(pm, key, secret, "None", NoneVal, t, r)
             IN  /\ http_requests < MaxHttp
                 /\ now' = t
                 /\ paper_mode' = pm
                 /\ default_lot_sizes' = LotSizesOr(NoLotSizes)
                 /\ api_key' = key
                 /\ api_secret' = secret
                 /\ paper_orders' = EmptyDict
                 /\ paper_positions' = EmptyDict
                 /\ uuid_draws' = uuid_draws
                 /\ IF ~pm
                    THEN /\ instance' = IF a.raised = "no" THEN "ready"
                                        ELSE "failed"
                         /\ auth_token' = a.tok
                         /\ auth_expires_at' = a.exp
                         /\ http_requests' = http_requests + a.http
                         /\ last' = Call(op, pm_arg,
                                         IF a.raised = "no" THEN "live client"
                                         ELSE a.raised)
                    ELSE /\ instance' = "ready"
                         /\ auth_token' = "paper"
                         /\ auth_expires_at' = t + PaperTokenLifetime
                         /\ http_requests' = http_requests
                         /\ last' = Call(op, pm_arg, "paper client")

SingletonNext ==
    \/ \E pm_arg \in PaperModeArgs, pm_env \in EnvPaperModes,
          key \in BOOLEAN, secret \in BOOLEAN, r \in TokenResponses :
          get_upstox_client(pm_arg, pm_env, key, secret, r) /\ UNCHANGED <<mdvars, agentvars>>
    \/ \E q \in MarketBuyRequests :
          market_buy(q.symbol, q.quantity, q.price) /\ UNCHANGED <<mdvars, agentvars>>
    \/ \E q \in MarketSellRequests :
          market_sell(q.symbol, q.quantity, q.price) /\ UNCHANGED <<mdvars, agentvars>>
    \/ get_positions /\ UNCHANGED <<mdvars, agentvars>>

SpecSingleton == Init /\ [][SingletonNext]_vars

\* C34: get_upstox_client(paper_mode=True), when it returns a client,
\* returns one that is in paper mode, whatever calls came before.
C34_SingletonPaper ==
    (/\ last.op = "get_upstox_client"
     /\ last.id = "True"
     /\ last.out \notin Errors) => (paper_mode /\ last.out = "paper client")

-----------------------------------------------------------------------------
(* Invariants of the paper position ledger *)

\* C35: every entry of the paper position ledger has a strictly positive
\* integer quantity, after any sequence of place_order, market_buy,
\* market_sell, close_position and cancel_order calls.
C35_PositiveQuantities ==
    Paper => \A symbol \in DOMAIN paper_positions :
                /\ paper_positions[symbol].quantity \in Nat
                /\ paper_positions[symbol].quantity > 0

\* two shares were bought, one was sold, and an order has been cancelled
\* since: one share is held
C35_Witness ==
    /\ Paper
    /\ last.op = "cancel_order"
    /\ Cardinality(DOMAIN paper_orders) = 2
    /\ "RELIANCE" \in DOMAIN paper_positions
    /\ paper_positions["RELIANCE"].quantity = 1

-----------------------------------------------------------------------------
(* Identifiers of the adapter's paper trades *)

\* C36: no two paper trades executed through market_buy / market_sell of
\* UpstoxMarketData carry the same trade identifier, two trades of the same
\* clock second included.
C36_TradeIdsUnique ==
    \A i, j \in 1 .. Len(trades) :
       i # j => trades[i].trade_id # trades[j].trade_id

-----------------------------------------------------------------------------
(* Properties of the quantity the agent opens with *)

\* the lot size _open_position works with: the decision's, else the symbol's
LotOf(d) == IF d.lot_size # 0 THEN d.lot_size ELSE MDLotSize(d.symbol)

\* C37: the quantity an OPEN_LONG / OPEN_SHORT decision sends to market_buy /
\* market_sell is a positive whole number of lots, at least one: quantity_lots
\* times the lot size when quantity_lots is given, otherwise the notional
\* over the current price rounded down to whole lots, or one lot when that
\* is zero or when notional or price is missing.
C37_OpenQuantity ==
    [][\A d \in Decisions :
          (/\ md_paper_mode
           /\ d.decision \in {"OPEN_LONG", "OPEN_SHORT"}
           /\ execute_decision(d)
           /\ Traded) =>
             LET q == NewTrade.quantity
                 lot == LotOf(d)
             IN  /\ q \in Nat
                 /\ q >= lot
                 /\ q % lot = 0
                 /\ d.quantity_lots # 0 => 2 * q = d.quantity_lots * lot
                 /\ d.quantity_lots = 0 =>
                       \/ q = lot
                       \/ \E data_ok \in BOOLEAN :
                             LET quote == GetCurrentPrice(current_price,
                                                          d.symbol, data_ok)
                             IN  /\ q * quote[1] <= d.notional * quote[2]
                                 /\ d.notional * quote[2] < (q + lot) * quote[1]]_vars

-----------------------------------------------------------------------------
(* The agent's loop body: BaseNof1Agent(exchange='upstox').run_single_iteration *)

\* what datetime.now(Asia/Kolkata) shows when _is_market_open reads it:
\* the weekday (Monday is 0), whether the date is in MARKET_HOLIDAYS, and the
\* minute of the day
Moment(weekday, holiday, minute) ==
    [weekday |-> weekday, holiday |-> holiday, minute |-> minute]
Moments ==
    {Moment(4, FALSE, MarketOpenMinute - 1), Moment(4, FALSE, MarketOpenMinute),
     Moment(4, FALSE, MarketCloseMinute), Moment(4, FALSE, MarketCloseMinute + 1),
     Moment(4, TRUE, 700), Moment(5, FALSE, 700)}

\* what can go wrong in the market-hours check: nothing, the import of
\* CONFIG, ZoneInfo('Asia/Kolkata'), the holiday list, the open/close strings
CheckFailures == {"no", "config", "zone", "holidays", "times"}

\* what the rest of the iteration meets: collect_all_data raises, the model
\* gives no decision, or it gives one
Replies == {"collect fails", "no decision", "decision"}
LoopDecisions ==
    {d \in Decisions :
        /\ d.decision \in {"DO_NOTHING", "OPEN_LONG", "OPEN_SHORT"}
        /\ d.symbol = "RELIANCE"
        /\ d.notional = 0}

\* the decisions that may come with a reply
DecisionsOf(reply) ==
    IF reply = "decision" THEN LoopDecisions
    ELSE {Decision("DO_NOTHING", "NIFTY", 0, 0, 0, 0)}

\* a check that never closes the market
IsMarketOpen_always(moment, failure) == TRUE

\* _is_market_open: weekend, holiday, then open_t <= now_t <= close_t; an
\* exception at any point gives True
IsMarketOpen(moment, failure) ==
    IF failure = "zone" THEN TRUE
    ELSE IF moment.weekday >= 5 THEN FALSE
    ELSE IF failure = "holidays" THEN TRUE
    ELSE IF moment.holiday THEN FALSE
    ELSE IF failure = "times" THEN TRUE
    ELSE MarketOpenMinute <= moment.minute /\ moment.minute <= MarketCloseMinute

run_single_iteration(moment, failure, reply, d) ==
    LET op == "run_single_iteration"
    IN  /\ iteration < MaxIterations
        /\ iteration' = iteration + 1
        /\ IF failure # "config" /\ ~IsMarketOpen(moment, failure)
           THEN /\ last' = Call(op, iteration + 1, "market closed")
                /\ UNCHANGED <<collected, asked, executed, now, mdvars, restvars>>
           ELSE IF reply = "collect fails"
           THEN /\ collected' = collected + 1
                /\ last' = Call(op, iteration + 1, "error")
                /\ UNCHANGED <<asked, executed, now, mdvars, restvars>>
           ELSE IF reply = "no decision"
           THEN /\ collected' = collected + 1
                /\ asked' = asked + 1
                /\ last' = Call(op, iteration + 1, "no decision")
                /\ UNCHANGED <<executed, now, mdvars, restvars>>
           ELSE /\ collected' = collected + 1
                /\ asked' = asked + 1
                /\ executed' = executed + 1
                /\ execute_decision(d)

IterationNext ==
    \E moment \in Moments, failure \in CheckFailures, reply \in Replies :
       \E d \in DecisionsOf(reply) :
          run_single_iteration(moment, failure, reply, d)

SpecIteration == MDInit /\ [][IterationNext]_vars

\* the market is closed at that moment
Closed(moment) ==
    \/ moment.weekday \in {5, 6}
    \/ moment.holiday
    \/ moment.minute < MarketOpenMinute
    \/ moment.minute > MarketCloseMinute

\* the market-hours check fails before it has an answer
CheckFails(moment, failure) ==
    \/ failure \in {"config", "zone"}
    \/ failure = "holidays" /\ moment.weekday < 5
    \/ failure = "times" /\ moment.weekday < 5 /\ ~moment.holiday

\* C38: with the market closed (weekend, holiday, outside the open/close
\* times) run_single_iteration counts the iteration and returns: no data is
\* collected, the model is not asked, no decision is executed and nothing
\* is traded; when the market-hours check itself fails, or the market is
\* open, the iteration goes on to collect data.
C38_ClosedMarketSkips ==
    [][\A moment \in Moments, failure \in CheckFailures, reply \in Replies :
          \A d \in DecisionsOf(reply) :
             run_single_iteration(moment, failure, reply, d) =>
                /\ iteration' = iteration + 1
                /\ IF Closed(moment) /\ ~CheckFails(moment, failure)
                   THEN UNCHANGED <<collected, asked, executed, mdvars>>
                   ELSE collected' = collected + 1]_vars

\* the first iteration found the market closed and the second traded
C38_Witness ==
    /\ iteration = 2
    /\ collected = 1 /\ asked = 1 /\ executed = 1
    /\ Len(trades) = 1


=============================================================================
